---- MODULE Spec2Model ----
(***************************************************************************)
(* Particles-to-Text: the shape generators (utils/generation), the morph   *)
(* effect and morphToText of MorphingScene, the GSAP ticker that drives    *)
(* the tweens morphToText creates, and the animate frame callback.         *)
(*                                                                         *)
(* Numbers.  Coordinates are fixed point, 100 units = 1.0 world unit.      *)
(* GSAP writes Math.round(v * 1e6) / 1e6 for every tweened value; here the *)
(* same rounding (Math.round, half up) lands on the 0.01 grid.  Angles and *)
(* camera coordinates of the frame callback are in the units given with    *)
(* TwoPi and CamUnit below.                                                *)
(***************************************************************************)
EXTENDS Integers, Sequences, FiniteSets, TLC

(***************************************************************************)
(* Bounds of the model                                                     *)
(***************************************************************************)
\* particles of the main system (7500 in the source)
PARTICLE_COUNT == 2
\* GSAP ticker resolution: ticks per second of tween time
TicksPerSecond == 2
\* text changes handled after mount
MaxMorphs == 2
\* frames the animation loop runs
MaxFrames == 8
\* largest targetCount / count the generators are called with standalone
MaxCount == 3

(***************************************************************************)
(* Program constants                                                       *)
(***************************************************************************)
SPHERE_RADIUS == 30
width == 1600
height == 400
step == 5
duration == 2

(***************************************************************************)
(* Arithmetic helpers                                                      *)
(***************************************************************************)
\* Math.round(n / d) for d > 0: nearest integer, halves toward +infinity
MathRound(n, d) == (2 * n + d) \div (2 * d)

Min(a, b) == IF a < b THEN a ELSE b

Abs(a) == IF a < 0 THEN -a ELSE a

\* new Float32Array(n): n zeros
Float32Array(n) == [k \in 1 .. n |-> 0]

(***************************************************************************)
(* Shape generators (utils/generation)                                     *)
(***************************************************************************)
\* Angles are given by their cosine and sine in fifths: [c |-> 3, s |-> 4]
\* is the angle with cos = 3/5 and sin = 4/5.
\* Outcomes of the two Math.random() draws of one sphere point, as the angles
\* they give: theta = random * 2pi in [0, 2pi), phi = acos(2 * random - 1)
\* in (0, pi].
SphereDraws ==
    << [theta |-> [c |-> 3, s |-> 4], phi |-> [c |-> 4, s |-> 3]],
       [theta |-> [c |-> -4, s |-> 3], phi |-> [c |-> -4, s |-> 3]],
       [theta |-> [c |-> 4, s |-> -3], phi |-> [c |-> 3, s |-> 4]],
       [theta |-> [c |-> 3, s |-> -4], phi |-> [c |-> -3, s |-> 4]] >>

\* createSpherePoints(radius, count); rnd[i + 1] is the draw of point i
createSpherePoints(radius, count, rnd) ==
    [k \in 1 .. count * 3 |->
        LET i == (k - 1) \div 3
            theta == rnd[i + 1].theta
            phi == rnd[i + 1].phi
        IN  CASE (k - 1) % 3 = 0 -> (radius * 100 * phi.s * theta.c) \div 25
              [] (k - 1) % 3 = 1 -> (radius * 100 * phi.s * theta.s) \div 25
              [] OTHER -> (radius * 100 * phi.c) \div 5]

\* The texts the scene is given, as sequences of characters: "a" draws
\* pixels, " " is white space, "zw" is a zero-width character (U+200B), which
\* draws nothing and which trim() keeps.
Texts == {<<>>, <<" ", " ">>, <<" ", "a">>, <<"zw">>}

\* String.prototype.trim: strips leading and trailing white space
RECURSIVE trim(_)
trim(s) ==
    IF s = <<>> THEN <<>>
    ELSE IF Head(s) = " " THEN trim(Tail(s))
    ELSE IF s[Len(s)] = " " THEN trim(SubSeq(s, 1, Len(s) - 1))
    ELSE s

\* (the test without trim())
IsBlankUntrimmed(text) == text = <<>>

\* the morph effect's test: !text || text.trim() === ''
IsBlank(text) == text = <<>> \/ trim(text) = <<>>

\* Canvas images after fillRect (white) and fillText: the set of pixels that
\* are not white, each with the red channel value getImageData reports.
Rasters ==
    { {},
      {[x |-> 800, y |-> 200, r |-> 0]},
      {[x |-> 795, y |-> 200, r |-> 0], [x |-> 800, y |-> 205, r |-> 0],
       [x |-> 800, y |-> 200, r |-> 100], [x |-> 802, y |-> 200, r |-> 0]},
      {[x |-> 803, y |-> 202, r |-> 0], [x |-> 800, y |-> 201, r |-> 0]},
      {[x |-> 800, y |-> 200, r |-> 128], [x |-> 805, y |-> 200, r |-> 200]} }

\* What fillText(text) leaves on the canvas: nothing for a text without a
\* visible glyph, otherwise one of the images with dark pixels on the stride.
FillText(text) ==
    IF \A k \in 1 .. Len(text) : text[k] # "a" THEN {{}}
    ELSE {data \in Rasters : \E p \in data : p.r = 0 /\ p.x % step = 0 /\ p.y % step = 0}

\* data[(y * width + x) * 4] of the image
RedAt(data, x, y) ==
    IF \E p \in data : p.x = x /\ p.y = y
    THEN (CHOOSE p \in data : p.x = x /\ p.y = y).r
    ELSE 255

\* (the threshold test written <= 128)
DarkOnStrideInclusive(data) ==
    {p \in data : /\ p.y < height /\ p.y % step = 0
                  /\ p.x < width /\ p.x % step = 0
                  /\ RedAt(data, p.x, p.y) <= 128}

\* the pixels the stride scan visits and finds dark
DarkOnStride(data) ==
    {p \in data : /\ p.y < height /\ p.y % step = 0
                  /\ p.x < width /\ p.x % step = 0
                  /\ RedAt(data, p.x, p.y) < 128}

\* the scan pushes them row by row, left to right
RECURSIVE InScanOrder(_)
InScanOrder(S) ==
    IF S = {} THEN <<>>
    ELSE LET first == CHOOSE p \in S : \A q \in S : p.y * width + p.x <= q.y * width + q.x
         IN  <<[x |-> first.x, y |-> first.y]>> \o InScanOrder(S \ {first})

ScanCoords(data) == InScanOrder(DarkOnStride(data))

\* Outcomes of Math.random(), in hundredths
RandomDraws == <<0, 30, 90>>

\* (Math.random() - 0.5) * 0.8 and * 0.5, in hundredths
JitterXY(r) == ((r - 50) * 8) \div 10

JitterZ(r) == ((r - 50) * 5) \div 10

\* step 6 of createTextPoints: resample the coordinates to targetCount points
ResamplePoints(coords, targetCount, rnd) ==
    [k \in 1 .. targetCount * 3 |->
        LET i == (k - 1) \div 3
            c == coords[(i % Len(coords)) + 1]
        IN  CASE (k - 1) % 3 = 0 -> (2 * c.x - width) * 6 + JitterXY(rnd[i + 1].x)
              [] (k - 1) % 3 = 1 -> -((2 * c.y - height) * 6) + JitterXY(rnd[i + 1].y)
              [] OTHER -> 0 + JitterZ(rnd[i + 1].z)]

\* (the fallback of step 5 returning an empty array)
createTextPointsEmptyFallback(text, targetCount, ctx, data, rnd) ==
    IF ~ctx THEN Float32Array(targetCount * 3)
    ELSE IF Len(ScanCoords(data)) = 0 THEN Float32Array(0)
    ELSE ResamplePoints(ScanCoords(data), targetCount, rnd)

\* createTextPoints(text, targetCount): ctx is whether getContext('2d')
\* returned a context, data the image fillText(text) left, rnd[i + 1] the three
\* Math.random() draws of point i.
createTextPoints(text, targetCount, ctx, data, rnd) ==
    IF ~ctx THEN Float32Array(targetCount * 3)
    ELSE IF Len(ScanCoords(data)) = 0 THEN Float32Array(targetCount * 3)
    ELSE ResamplePoints(ScanCoords(data), targetCount, rnd)

(***************************************************************************)
(* State                                                                   *)
(***************************************************************************)
VARIABLES
    text,             \* the text prop of MorphingScene
    positions,        \* particles.geometry.attributes.position.array
    tweens,           \* GSAP's live tweens of positions, in creation order
    flagged,          \* the latest pass of the GSAP ticker set position.needsUpdate = true
    isTextMode,       \* isTextModeRef.current
    morphs,           \* text changes handled since mount
    randomCalls,      \* position in the Math.random() stream: generator calls so far, mod 4
    targetPositions,  \* the target of the latest morphToText call
    targetKind,       \* which generator made it: "sphere" or "text"
    ctx2d,            \* getContext('2d') of the latest createTextPoints call: "ok", "null", or "unused"
    snapshot,         \* positions as they were at the latest morphToText call
    superseded,       \* the tweens the latest morphToText call killed
    sinceRequest      \* tween time since the latest morphToText call, capped at the duration

VARIABLES
    genFn,            \* the generator called last on its own: "none", "sphere" or "text"
    genCount,         \* its count / targetCount
    genCtx,           \* createTextPoints: whether getContext('2d') returned a context
    genData,          \* createTextPoints: the image it scanned
    genOut            \* the Float32Array it returned

morphVars == <<text, positions, tweens, flagged, isTextMode, morphs, randomCalls, targetPositions,
               targetKind, ctx2d, snapshot, superseded, sinceRequest>>

genVars == <<genFn, genCount, genCtx, genData, genOut>>

VARIABLES
    innerWidth,       \* window.innerWidth
    frameId,          \* frameIdRef.current: the id of the latest requestAnimationFrame
    time,             \* the latest Date.now() * 0.001 read by animate, in time units
    frameMode,        \* the branch the latest frame took: "sphere" or "text"
    camera,           \* camera.position
    rotationY,        \* particles.rotation.y
    starsRotation,    \* starsRef.current.rotation
    orbiters,         \* orbitersRef.current: angle, speed and own rotation of each
    pending,          \* the ids of the frame callbacks requested and neither run nor cancelled
    mounted           \* MorphingScene is mounted: the cleanup of effect 1 has not run

sceneVars == <<innerWidth, frameId, time, frameMode, camera, rotationY, starsRotation, orbiters,
               pending, mounted>>

VARIABLES
    inputText,        \* App's text state: the value of the input element
    timers,           \* the pending setTimeout callbacks: id, the text its closure holds, ms left
    handler,          \* the timer id the debounce effect's cleanup will clear
    sinceChange,      \* ms since the input value last changed, capped at the delay
    cancelled         \* the text of the timer cleared last while it was pending, as a set: {} if none

appVars == <<inputText, timers, handler, sinceChange, cancelled>>

(***************************************************************************)
(* GSAP: tweens of the position array                                      *)
(***************************************************************************)
\* duration: 2, in ticks
TweenTicks == duration * TicksPerSecond

\* the denominator of an ease ratio
EaseDen == TweenTicks * TweenTicks * TweenTicks

\* (an ease that overshoots: p * (3 - 2p) passes 1 before the end)
EaseNumBack(el) == (el * (3 * TweenTicks - 2 * el) * EaseDen) \div (TweenTicks * TweenTicks)

\* ease "power2.inOut" at el / TweenTicks, as a numerator over EaseDen:
\* p < .5 ? (2p)^3 / 2 : 1 - (2(1 - p))^3 / 2
EaseNum(el) ==
    IF 2 * el < TweenTicks THEN 4 * el * el * el
    ELSE EaseDen - 4 * (TweenTicks - el) * (TweenTicks - el) * (TweenTicks - el)

\* the value a tween writes: round(s + (e - s) * ratio) on the grid
Render(s, e, el) == MathRound(s * EaseDen + (e - s) * EaseNum(el), EaseDen)

\* (a tween whose time runs past the duration)
AdvanceUnclamped(t, d) == t + d

\* totalTime of a tween after a tick of d: clamped to the duration
Advance(t, d) == Min(t + d, TweenTicks)

\* (the call left out)
killTweensOfNothing(tws) == tws

\* gsap.killTweensOf(positions)
killTweensOf(tws) == <<>>

\* (the test against an index the loop never takes)
HasOnUpdateAtOne(i) == i = 1

\* if (i === 0) targetConfig.onUpdate = ...
HasOnUpdate(i) == i = 0

\* the loop of morphToText: one gsap.to per particle, for i = 0, 3, 6, ...
\* A tween reads its start values when it first renders.
NewTweens(pos, target) ==
    [j \in 1 .. (Len(pos) + 2) \div 3 |->
        LET i == 3 * (j - 1)
        IN  [i |-> i, inited |-> FALSE, s |-> <<>>,
             e |-> <<target[i + 1], target[i + 2], target[i + 3]>>,
             t |-> 0, onUpdate |-> HasOnUpdate(i)]]

\* (tweens that start from the end values of the tweens they replace)
morphToTextFromOldTarget(tws, pos, target) ==
    [j \in 1 .. Len(NewTweens(pos, target)) |->
        IF j <= Len(tws)
        THEN [NewTweens(pos, target)[j] EXCEPT !.inited = TRUE, !.s = tws[j].e]
        ELSE NewTweens(pos, target)[j]]

\* morphToText(particles, targetPositions): the tweens afterwards
morphToText(tws, pos, target) == killTweensOf(tws) \o NewTweens(pos, target)

\* One pass of the GSAP ticker over the live tweens, in order: each tween
\* initialises on its first render, writes its three values, calls its
\* onUpdate, and is removed when its time reaches the duration.
RECURSIVE TickTweens(_, _, _, _)
TickTweens(tws, pos, flag, d) ==
    IF tws = <<>> THEN [tweens |-> <<>>, positions |-> pos, needsUpdate |-> flag]
    ELSE LET tw == Head(tws)
             s == IF tw.inited THEN tw.s
                  ELSE <<pos[tw.i + 1], pos[tw.i + 2], pos[tw.i + 3]>>
             t == Advance(tw.t, d)
             pos1 == [k \in 1 .. Len(pos) |->
                        IF k \in tw.i + 1 .. tw.i + 3
                        THEN Render(s[k - tw.i], tw.e[k - tw.i], t)
                        ELSE pos[k]]
             flag1 == IF tw.onUpdate THEN TRUE ELSE flag
             rest == TickTweens(Tail(tws), pos1, flag1, d)
             tw1 == [tw EXCEPT !.inited = TRUE, !.s = s, !.t = t]
         IN  [rest EXCEPT !.tweens = (IF t >= TweenTicks THEN <<>> ELSE <<tw1>>) \o @]

(***************************************************************************)
(* Random inputs of the generators when the scene calls them               *)
(***************************************************************************)
\* the frame deltas of the GSAP ticker, in ticks
FrameDeltas == {1, 2}

\* Math.random() is a stream: the n-th generator call since mount draws
\* SphereRnd(count, n) or TextRnd(count, n), and consecutive calls draw
\* different values for every point.
RandomCalls == 0 .. 3

SphereRnd(count, n) == [i \in 1 .. count |-> SphereDraws[((n + i) % 4) + 1]]

TextRnd(count, n) ==
    [i \in 1 .. count |->
        [x |-> RandomDraws[((n + i) % 3) + 1],
         y |-> RandomDraws[((n + i + 1) % 3) + 1],
         z |-> RandomDraws[((n + i + 2) % 3) + 1]]]

(***************************************************************************)
(* MorphingScene: mount, the morph effect, the GSAP ticker                 *)
(***************************************************************************)
\* After mount: effect 1 built the main particles on a sphere, effect 2 ran
\* with text '' and morphs them to a second sphere.
InitMorph ==
    \E n \in {0, 1} :
        LET initialPositions ==
                createSpherePoints(SPHERE_RADIUS, PARTICLE_COUNT, SphereRnd(PARTICLE_COUNT, n))
            target ==
                createSpherePoints(SPHERE_RADIUS, PARTICLE_COUNT, SphereRnd(PARTICLE_COUNT, n + 1))
        IN  /\ text = <<>>
            /\ randomCalls = (n + 2) % 4
            /\ positions = initialPositions
            /\ tweens = morphToText(<<>>, initialPositions, target)
            /\ flagged = FALSE
            /\ isTextMode = FALSE
            /\ morphs = 0
            /\ targetPositions = target
            /\ targetKind = "sphere"
            /\ ctx2d = "unused"
            /\ snapshot = initialPositions
            /\ superseded = <<>>
            /\ sinceRequest = 0

\* the tail of the morph effect: morphToText(particles, targetPositions)
StartMorph(target) ==
    /\ tweens' = morphToText(tweens, positions, target)
    /\ targetPositions' = target
    /\ snapshot' = positions
    /\ superseded' = tweens
    /\ sinceRequest' = 0
    /\ UNCHANGED <<positions, flagged>>
    /\ UNCHANGED <<genVars, sceneVars>>

\* The text prop changes to newText and the morph effect runs; ctx and data
\* are what getContext('2d') and fillText give createTextPoints, if it is called.
MorphEffect(newText, ctx, data) ==
    /\ morphs < MaxMorphs
    /\ newText # text
    /\ text' = newText
    /\ morphs' = morphs + 1
    /\ randomCalls' = (randomCalls + 1) % 4
    /\ IF IsBlank(newText)
       THEN /\ isTextMode' = FALSE
            /\ targetKind' = "sphere"
            /\ ctx2d' = "unused"
            /\ StartMorph(createSpherePoints(SPHERE_RADIUS, PARTICLE_COUNT,
                                             SphereRnd(PARTICLE_COUNT, randomCalls)))
       ELSE /\ isTextMode' = TRUE
            /\ targetKind' = "text"
            /\ ctx2d' = IF ctx THEN "ok" ELSE "null"
            /\ StartMorph(createTextPoints(newText, PARTICLE_COUNT, ctx, data,
                                            TextRnd(PARTICLE_COUNT, randomCalls)))

\* One tick of the GSAP ticker, d ticks of tween time after the previous one.
GsapTick(d) ==
    LET r == TickTweens(tweens, positions, FALSE, d)
    IN  /\ tweens' = r.tweens
        /\ positions' = r.positions
        /\ flagged' = r.needsUpdate
        /\ sinceRequest' = Min(sinceRequest + d, TweenTicks)
        /\ UNCHANGED <<text, isTextMode, morphs, randomCalls, targetPositions, targetKind,
                       ctx2d, snapshot, superseded>>
        /\ UNCHANGED <<genVars, sceneVars, appVars>>

(***************************************************************************)
(* The generators called on their own, with any count                      *)
(***************************************************************************)
InitGen ==
    /\ genFn = "none"
    /\ genCount = 0
    /\ genCtx = TRUE
    /\ genData = {}
    /\ genOut = <<>>

CallSphere ==
    \E count \in 0 .. MaxCount, radius \in {SPHERE_RADIUS, 200} :
        \E rnd \in {SphereRnd(count, n) : n \in RandomCalls} :
            /\ genFn' = "sphere"
            /\ genCount' = count
            /\ genOut' = createSpherePoints(radius, count, rnd)
            /\ UNCHANGED <<genCtx, genData>>
            /\ UNCHANGED <<morphVars, sceneVars, appVars>>

CallText ==
    \E t \in Texts, count \in 0 .. MaxCount, ctx \in BOOLEAN, data \in Rasters :
        \E rnd \in {TextRnd(count, n) : n \in RandomCalls} :
            /\ genFn' = "text"
            /\ genCount' = count
            /\ genCtx' = ctx
            /\ genData' = data
            /\ genOut' = createTextPoints(t, count, ctx, data, rnd)
            /\ UNCHANGED <<morphVars, sceneVars, appVars>>

(***************************************************************************)
(* The frame callback                                                      *)
(*                                                                         *)
(* Units.  One time unit is the time in which time * 0.05 grows by an      *)
(* eighth of a turn, so time * 0.1 is a whole number of quarter turns.     *)
(* Angles: TwoPi units to the turn.  Camera coordinates: hundredths.       *)
(* Date.now() is read once per frame and does not decrease; frames are     *)
(* short against the time unit, so a frame reads the previous value or the *)
(* next.                                                                   *)
(***************************************************************************)
TwoPi == 8000

\* cos and sin of k quarter turns
Cos4(k) == CASE k % 4 = 0 -> 1 [] k % 4 = 2 -> -1 [] OTHER -> 0

Sin4(k) == Cos4(k + 3)

\* Math.sin of k eighth turns, in thousandths
Sin8(k) == CASE k % 8 \in {0, 4} -> 0
             [] k % 8 \in {1, 3} -> 707
             [] k % 8 = 2 -> 1000
             [] k % 8 \in {5, 7} -> -707
             [] OTHER -> -1000

\* const targetZ = currentIsMobile ? 90 : 60, in hundredths
TargetZ(w) == IF w < 768 THEN 9000 ELSE 6000

\* v += (goal - v) * 0.05
Smooth(v, goal) == v + MathRound((goal - v) * 5, 100)

\* (Math.floor in place of Math.round)
NearestTurnFloor(rot) == (rot \div TwoPi) * TwoPi

\* Math.round(currentRot / (Math.PI * 2)) * (Math.PI * 2)
NearestTurn(rot) == MathRound(rot, TwoPi) * TwoPi

\* orb.angle += orb.speed; orb.points.rotation.y += 0.02, in thousandths
StepOrbiter(orb) == [orb EXCEPT !.angle = @ + orb.speed, !.rotationY = @ + 20]

\* (a cleanup that cancels nothing)
cancelAnimationFrameNothing(ps, id) == ps

\* cancelAnimationFrame(id)
cancelAnimationFrame(ps, id) == ps \ {id}

\* After effect 1, its call of animate() included: that first run, at time
\* 0 and in sphere mode, requested the next frame, moved the camera from
\* where the constructor put it onto the orbit and stepped the five orbiters.
InitScene ==
    /\ innerWidth = 1024
    /\ frameId = 1
    /\ pending = {1}
    /\ mounted = TRUE
    /\ time = 0
    /\ frameMode = "sphere"
    /\ camera = [x |-> Cos4(0) * TargetZ(innerWidth),
                 z |-> Sin4(0) * TargetZ(innerWidth),
                 y |-> Sin8(0)]
    /\ rotationY = 0
    /\ starsRotation = [x |-> 0, y |-> 0]
    /\ orbiters = [j \in 1 .. 5 |->
                     StepOrbiter([angle |-> 1000 * j, rotationY |-> 0,
                                  speed |-> IF j % 2 = 0 THEN 15 ELSE -25])]

\* animate(), run by the browser as a pending frame callback, at
\* Date.now() * 0.001 = now.  It requests the next frame and records its id,
\* turns the stars and the orbiters, then moves the camera and the main
\* particles by the branch isTextModeRef selects.
Animate(now) ==
    /\ frameId < MaxFrames
    /\ now \in {time, time + 1}
    /\ \E id \in pending : pending' = (pending \ {id}) \cup {frameId + 1}
    /\ frameId' = frameId + 1
    /\ time' = now
    /\ starsRotation' = [y |-> (now * TwoPi * 3) \div 40, x |-> (now * TwoPi) \div 40]
    /\ orbiters' = [j \in 1 .. Len(orbiters) |-> StepOrbiter(orbiters[j])]
    /\ IF ~isTextMode
       THEN /\ frameMode' = "sphere"
            /\ camera' = [x |-> Cos4(now) * TargetZ(innerWidth),
                          z |-> Sin4(now) * TargetZ(innerWidth),
                          y |-> Sin8(now)]
            /\ rotationY' = (now * TwoPi) \div 8
       ELSE /\ frameMode' = "text"
            /\ camera' = [x |-> Smooth(camera.x, 0),
                          y |-> Smooth(camera.y, 0),
                          z |-> Smooth(camera.z, TargetZ(innerWidth))]
            /\ rotationY' = rotationY + MathRound((NearestTurn(rotationY) - rotationY) * 5, 100)
    /\ UNCHANGED <<innerWidth, mounted>>
    /\ UNCHANGED <<morphVars, genVars, appVars>>

\* The window is resized to width w; handleResize touches only the camera's
\* projection and the renderer's size.
Resize(w) ==
    /\ w # innerWidth
    /\ innerWidth' = w
    /\ UNCHANGED <<frameId, time, frameMode, camera, rotationY, starsRotation, orbiters,
                   pending, mounted>>
    /\ UNCHANGED <<morphVars, genVars, appVars>>

\* The cleanup of effect 1, at unmount: it cancels the frame whose id
\* frameIdRef holds.
Teardown ==
    /\ mounted
    /\ mounted' = FALSE
    /\ pending' = cancelAnimationFrame(pending, frameId)
    /\ UNCHANGED <<innerWidth, frameId, time, frameMode, camera, rotationY, starsRotation,
                   orbiters>>
    /\ UNCHANGED <<morphVars, genVars, appVars>>

(***************************************************************************)
(* App: the input element and the debounce effect                          *)
(***************************************************************************)
\* <input maxLength={15}>
maxLength == 15

\* setTimeout(..., 800)
DebounceMs == 800

\* the time that passes between two events of the page, in ms
Elapses == {300, 500, 800}

Repeat(c, n) == [k \in 1 .. n |-> c]

\* What the user tries to make of the input's value by typing, deleting or
\* pasting: the short texts, and runs of one below, at and one above maxLength.
Attempts ==
    Texts \cup {Repeat("a", maxLength - 1), Repeat("a", maxLength), Repeat("a", maxLength + 1)}

\* (an input element without maxLength)
InputValueUnbounded(attempt) == attempt

\* e.target.value: the element keeps at most maxLength characters of an edit
InputValue(attempt) == SubSeq(attempt, 1, Min(Len(attempt), maxLength))

\* (a cleanup that clears nothing)
clearTimeoutNothing(ts, id) == ts

\* clearTimeout(id): a no-op when the timer has fired already
clearTimeout(ts, id) == {t \in ts : t.id # id}

\* the id setTimeout returns: one no pending timer has
NextTimerId(ts) ==
    CHOOSE n \in 1 .. Cardinality(ts) + 1 :
        /\ \A t \in ts : t.id # n
        /\ \A m \in 1 .. n - 1 : \E t \in ts : t.id = m

\* After App's mount: both states are '', and the debounce effect has run once.
InitApp ==
    /\ inputText = <<>>
    /\ timers = {[id |-> 1, value |-> <<>>, left |-> DebounceMs]}
    /\ handler = 1
    /\ sinceChange = 0
    /\ cancelled = {}

\* onChange: setText(e.target.value); App renders again, the cleanup of the
\* debounce effect clears its timer and the effect sets a new one.
OnChange(attempt) ==
    LET value   == InputValue(attempt)
        cleared == clearTimeout(timers, handler)
        id      == NextTimerId(cleared)
    IN  /\ value # inputText
        /\ inputText' = value
        /\ timers' = cleared \cup {[id |-> id, value |-> value, left |-> DebounceMs]}
        /\ handler' = id
        /\ sinceChange' = 0
        /\ cancelled' = IF \E t \in timers : t.id = handler
                        THEN {t.value : t \in {u \in timers : u.id = handler}}
                        ELSE cancelled
        /\ UNCHANGED <<morphVars, genVars, sceneVars>>

\* dt ms pass without an event; a timer that is due fires before more time passes
Elapse(dt) ==
    /\ timers # {}
    /\ \A t \in timers : t.left > 0
    /\ timers' = {[t EXCEPT !.left = IF @ > dt THEN @ - dt ELSE 0] : t \in timers}
    /\ sinceChange' = Min(sinceChange + dt, DebounceMs)
    /\ UNCHANGED <<inputText, handler, cancelled>>
    /\ UNCHANGED <<morphVars, genVars, sceneVars>>

\* A due timer fires: setDebouncedText(text) with the text of its closure.
\* When that changes debouncedText, MorphingScene renders with the new text
\* prop and its morph effect runs.
TimerFire ==
    \E t \in timers, ctx \in BOOLEAN :
        \E data \in FillText(t.value) :
            /\ t.left = 0
            /\ timers' = timers \ {t}
            /\ IF t.value # text
               THEN MorphEffect(t.value, ctx, data)
               ELSE UNCHANGED <<morphVars, genVars, sceneVars>>
            /\ UNCHANGED <<inputText, handler, sinceChange, cancelled>>

vars == <<morphVars, genVars, sceneVars, appVars>>

Init == InitMorph /\ InitGen /\ InitScene /\ InitApp

NextApp ==
    \/ \E attempt \in Attempts : OnChange(attempt)
    \/ \E dt \in Elapses : Elapse(dt)
    \/ TimerFire

SpecApp == Init /\ [][NextApp]_vars

\* the texts that switch the scene between its two modes
ModeTexts == {<<>>, <<" ", "a">>}

NextScene ==
    \/ \E newText \in ModeTexts :
          /\ mounted
          /\ MorphEffect(newText, TRUE, CHOOSE data \in FillText(newText) : TRUE)
          /\ UNCHANGED appVars
    \/ \E now \in 0 .. MaxFrames : Animate(now)
    \/ \E w \in {500, 1024} : Resize(w)
    \/ Teardown

SpecScene == Init /\ [][NextScene]_vars

NextGen ==
    \/ CallSphere
    \/ CallText

SpecGen == Init /\ [][NextGen]_vars

Next ==
    \/ \E newText \in Texts, ctx \in BOOLEAN :
          \E data \in FillText(newText) :
              MorphEffect(newText, ctx, data) /\ UNCHANGED appVars
    \/ \E d \in FrameDeltas : GsapTick(d)

Spec == Init /\ [][Next]_vars

(***************************************************************************)
(* Properties                                                              *)
(***************************************************************************)
\* the three values of particle index i in a buffer
Triple(a, i) == <<a[i + 1], a[i + 2], a[i + 3]>>

Between(lo, v, hi) == (lo <= v /\ v <= hi) \/ (hi <= v /\ v <= lo)

\* C1: at most one transition is active on the main buffer.  After any
\* morphToText call the live tweens are exactly those of the latest request:
\* no two tweens drive the same particle, every live tween ends at the latest
\* target and runs on the latest request's clock, and every coordinate of the
\* buffer is the value on the way from the request's snapshot to the latest
\* target, never a value written toward a superseded target.
C1_OneActiveTransition ==
    /\ Len(tweens) \in {0, Len(positions) \div 3}
    /\ \A j, k \in 1 .. Len(tweens) : j # k => tweens[j].i # tweens[k].i
    /\ \A j \in 1 .. Len(tweens) :
          /\ tweens[j].e = Triple(targetPositions, tweens[j].i)
          /\ tweens[j].t = sinceRequest
    /\ \A k \in 1 .. Len(positions) :
          positions[k] = Render(snapshot[k], targetPositions[k], sinceRequest)

\* a second request superseded a transition that had rendered, and the new
\* transition has rendered since
C1_Witness ==
    /\ morphs >= 1
    /\ superseded # <<>> /\ superseded[1].inited
    /\ tweens # <<>> /\ tweens[1].inited
    /\ superseded[1].e # Triple(targetPositions, 0)

\* C2 as stated: when B supersedes A in flight, B's start value is for every
\* coordinate the buffer value at the request, and that value is neither A's
\* start value nor A's target value.
C2_StartIsNeitherEndOfA ==
    \A j \in 1 .. Len(superseded) :
        superseded[j].inited =>
            \A c \in 1 .. 3 :
                /\ snapshot[superseded[j].i + c] # superseded[j].s[c]
                /\ snapshot[superseded[j].i + c] # superseded[j].e[c]

\* C2 (amended): when B supersedes A in flight, the start value B
\* interpolates from is for every coordinate the buffer value at the moment of
\* the request, which is A's interpolated value at A's elapsed time; it lies on
\* the segment between A's start and A's target, and differs from both
\* wherever A's eased displacement from each exceeds one step of the grid.
\* B's first frame writes the value on the way from that start, so the buffer
\* does not jump.
C2_SnapshotHandoff ==
    /\ \A j \in 1 .. Len(tweens) :
          tweens[j].inited =>
              /\ tweens[j].s = Triple(snapshot, tweens[j].i)
              /\ \A c \in 1 .. 3 :
                    positions[tweens[j].i + c] =
                        Render(snapshot[tweens[j].i + c], tweens[j].e[c], tweens[j].t)
    /\ \A j \in 1 .. Len(superseded) :
          superseded[j].inited =>
              \A c \in 1 .. 3 :
                  LET a == superseded[j]
                      v == snapshot[a.i + c]
                  IN  /\ 0 < a.t /\ a.t < TweenTicks
                      /\ v = Render(a.s[c], a.e[c], a.t)
                      /\ Between(a.s[c], v, a.e[c])
                      /\ ( /\ Abs(a.e[c] - a.s[c]) * EaseNum(a.t) > EaseDen
                           /\ Abs(a.e[c] - a.s[c]) * (EaseDen - EaseNum(a.t)) > EaseDen )
                         => (v # a.s[c] /\ v # a.e[c])

\* B superseded A in flight, B has rendered its first frame, and on some
\* coordinate B started strictly between A's start and A's target
C2_Witness ==
    /\ superseded # <<>> /\ superseded[1].inited
    /\ tweens # <<>> /\ tweens[1].inited /\ tweens[1].t = 1
    /\ \E c \in 1 .. 3 :
          /\ tweens[1].s[c] # superseded[1].s[c]
          /\ tweens[1].s[c] # superseded[1].e[c]
          /\ positions[c] # tweens[1].s[c]

\* C3: once the duration of the latest transition has elapsed, every
\* coordinate of the buffer equals the latest requested target exactly and no
\* tween is left: the transition is retired, and the ticks after it leave the
\* buffer at the target.
C3_LastRequestWins ==
    /\ sinceRequest >= TweenTicks => (positions = targetPositions /\ tweens = <<>>)
    /\ tweens = <<>> => positions = targetPositions
    /\ \A j \in 1 .. Len(tweens) : tweens[j].t < TweenTicks

\* a superseding transition ran to its end, and the ticker ran again after it
C3_Witness ==
    /\ morphs >= 1
    /\ superseded # <<>> /\ superseded[1].inited
    /\ sinceRequest = TweenTicks
    /\ positions = targetPositions /\ positions # snapshot
    /\ ~flagged

\* C4: the requested shape and the camera mode flag follow the text alone:
\* sphere and isTextMode false when the text is empty or only white space,
\* text points and isTextMode true otherwise.
C4_ModeFollowsText ==
    LET visible == \E k \in 1 .. Len(text) : text[k] # " "
    IN  /\ isTextMode = visible
        /\ targetKind = (IF visible THEN "text" ELSE "sphere")
        /\ isTextMode = (targetKind = "text")

\* a text of white space only was handled after a text with characters
C4_Witness ==
    /\ morphs = 2
    /\ text = <<" ", " ">>
    /\ ~isTextMode
    /\ superseded # <<>>
    /\ superseded[1].e = <<0, 0, 0>>

\* C5: createTextPoints returns 3 * targetCount values on each return path,
\* createSpherePoints returns 3 * count values; called with PARTICLE_COUNT, as
\* the scene calls them for a morph target, they return a buffer of the
\* length of the main buffer, 3 * PARTICLE_COUNT.
C5_FullLength ==
    /\ genFn # "none" => Len(genOut) = 3 * genCount
    /\ (genFn # "none" /\ genCount = PARTICLE_COUNT) =>
          (Len(genOut) = Len(positions) /\ Len(genOut) = Len(targetPositions))
    /\ Len(positions) = 3 * PARTICLE_COUNT

\* createTextPoints had a context, found no dark pixel in a drawn image, and
\* returned a full buffer
C5_Witness ==
    /\ genFn = "text" /\ genCtx /\ genData # {}
    /\ genCount = PARTICLE_COUNT
    /\ genOut = Float32Array(3 * PARTICLE_COUNT)

\* C6: when the stride-5 scan collects no dark pixel, createTextPoints returns
\* 3 * targetCount zeros.
C6_ZeroFallback ==
    ( /\ genFn = "text"
      /\ genCtx
      /\ ~\E p \in genData : p.x % 5 = 0 /\ p.y % 5 = 0 /\ p.r < 128 )
    => genOut = [k \in 1 .. 3 * genCount |-> 0]

\* the image has pixels, none of them dark on the stride
C6_Witness ==
    /\ genFn = "text" /\ genCtx /\ genCount > 0
    /\ \E p \in genData : p.r = 128 /\ p.x % 5 = 0 /\ p.y % 5 = 0
    /\ genOut = [k \in 1 .. 3 * genCount |-> 0]

\* C7 as stated: when getContext('2d') returns no context, no transition is
\* started for that request.
C7_NoMorphWithoutSurface ==
    ~( /\ ctx2d = "null"
       /\ tweens # <<>>
       /\ \A j \in 1 .. Len(tweens) : tweens[j].e = Triple(targetPositions, tweens[j].i) )

\* C8: every pass of the GSAP ticker that changes a coordinate of the buffer
\* sets position.needsUpdate in that pass, in every transition.
C8_DirtyOnEveryWrite == [][positions' # positions => flagged']_vars

\* a pass of a superseding transition wrote the buffer and flagged it
C8_Witness ==
    /\ morphs >= 1
    /\ superseded # <<>>
    /\ tweens # <<>> /\ tweens[1].inited
    /\ positions # snapshot
    /\ flagged

\* C9: in text mode every frame steers the main particles' rotation toward
\* the multiple of a full turn nearest to the current rotation R (a half
\* turn rounds up, as Math.round does): the frame moves the rotation by 5%
\* of the remaining distance, by no more than 5% of half a turn, the
\* remaining distance contracts by the factor 0.95 (so the rotation
\* converges to that multiple), and the nearest multiple of the new
\* rotation is the same one.
C9_CenteringRotation ==
    [][(isTextMode /\ frameId' = frameId + 1) =>
         LET k    == CHOOSE n \in 0 .. MaxFrames :
                         /\ (2 * n - 1) * TwoPi <= 2 * rotationY
                         /\ 2 * rotationY < (2 * n + 1) * TwoPi
             goal == k * TwoPi
         IN  /\ Abs(100 * (rotationY' - rotationY) - 5 * (goal - rotationY)) <= 50
             /\ Between(rotationY, rotationY', goal)
             /\ 40 * Abs(rotationY' - rotationY) <= TwoPi
             /\ 100 * Abs(goal - rotationY') <= 95 * Abs(goal - rotationY) + 50
             /\ (2 * k - 1) * TwoPi <= 2 * rotationY'
             /\ 2 * rotationY' < (2 * k + 1) * TwoPi]_vars

\* A text-mode frame has turned the particles from exactly half a turn
\* toward the full turn above it.
C9_Witness ==
    /\ isTextMode
    /\ frameMode = "text"
    /\ rotationY = TwoPi \div 2 + TwoPi \div 40

\* C10: on the first frame after a switch of camera mode, in either
\* direction, taken at the instant of the previous frame, each camera
\* coordinate moves by no more than 5% of the orbit's diameter and the
\* main particles' rotation by no more than 5% of half a turn.
C10_NoJumpOnModeSwitch ==
    [][(/\ frameId' = frameId + 1
        /\ frameMode' # frameMode
        /\ time' = time) =>
         /\ 100 * Abs(camera'.x - camera.x) <= 5 * 2 * TargetZ(innerWidth)
         /\ 100 * Abs(camera'.y - camera.y) <= 5 * 2 * TargetZ(innerWidth)
         /\ 100 * Abs(camera'.z - camera.z) <= 5 * 2 * TargetZ(innerWidth)
         /\ 40 * Abs(rotationY' - rotationY) <= TwoPi]_vars

\* C11: the scene's text changes, and a morph starts, only when 800 ms have
\* passed since the input last changed, and then to the input's current
\* value, of at most 15 characters; every change of the input leaves exactly
\* one pending timer, the new one with the full delay, and changes nothing
\* in the scene; at most one timer is pending at any time, and it holds the
\* input's current value.
C11_DebouncedCommit ==
    /\ [](/\ Cardinality(timers) <= 1
          /\ \A t \in timers : t.id = handler /\ t.value = inputText
          /\ Len(inputText) <= maxLength
          /\ Len(text) <= maxLength)
    /\ [][(text' # text \/ morphs' # morphs) =>
            /\ sinceChange >= DebounceMs
            /\ inputText' = inputText
            /\ text' = inputText
            /\ timers' = {}]_vars
    /\ [][inputText' # inputText =>
            /\ timers' = {[id |-> handler', value |-> inputText', left |-> DebounceMs]}
            /\ UNCHANGED morphVars]_vars

\* a typed value was replaced within the delay, its timer cleared, and the
\* later value, of full length, reached the scene
C11_Witness ==
    /\ cancelled = {<<" ", "a">>}
    /\ inputText = Repeat("a", maxLength)
    /\ text = inputText
    /\ morphs = 1
    /\ timers = {}

\* C12: the camera's orbit radius is chosen once, at mount: every
\* sphere-mode frame puts the camera at the distance from the vertical axis
\* that the sphere-mode frame before it used, whatever resize happened in
\* between.
C12_RadiusChosenOnce ==
    [][(/\ frameId' = frameId + 1
        /\ frameMode = "sphere"
        /\ frameMode' = "sphere") =>
         Abs(camera'.x) + Abs(camera'.z) = Abs(camera.x) + Abs(camera.z)]_vars

\* C14: while the scene is mounted exactly one frame callback is pending,
\* the one whose id frameIdRef holds: every run of animate replaces the
\* callback it ran by one new request and records its id.  The teardown
\* leaves no callback pending, and after it no step changes the camera, the
\* main particles' rotation, the stars, the orbiters or the frame state.
C14_FrameLoop ==
    /\ [](mounted => pending = {frameId})
    /\ [](~mounted => pending = {})
    /\ [][frameId' # frameId =>
            /\ mounted /\ mounted'
            /\ frameId \notin pending'
            /\ Cardinality(pending') = 1]_vars
    /\ [][~mounted =>
            UNCHANGED <<frameId, time, frameMode, camera, rotationY, starsRotation,
                        orbiters, pending>>]_vars

\* the scene was torn down after frames in both modes had run
C14_Witness ==
    /\ ~mounted
    /\ frameId >= 3
    /\ frameMode = "text"
    /\ pending = {}

\* C13: in a pass of the ticker each coordinate of the buffer gets the eased
\* value between its own start and its own target at the common elapsed
\* time, whatever the other coordinates are; the new value lies on the
\* segment between its start and its target, and on the segment between its
\* previous value and its target: it moves toward the target, never back
\* and never past it.
C13_MonotoneInterpolation ==
    [][(targetPositions' = targetPositions /\ morphs' = morphs) =>
         \A k \in 1 .. Len(positions) :
             /\ positions'[k] = Render(snapshot[k], targetPositions[k], sinceRequest')
             /\ Between(snapshot[k], positions'[k], targetPositions[k])
             /\ Between(positions[k], positions'[k], targetPositions[k])
             /\ Abs(targetPositions[k] - positions'[k]) <= Abs(targetPositions[k] - positions[k])
             /\ (snapshot[k] = targetPositions[k] => positions'[k] = positions[k])]_vars

\* a transition that nothing superseded is under way, past its first pass,
\* with a coordinate strictly between its start and its target
C13_Witness ==
    /\ morphs >= 1
    /\ tweens # <<>> /\ tweens[1].inited
    /\ sinceRequest >= 2 /\ sinceRequest < TweenTicks
    /\ \E k \in 1 .. Len(positions) :
          /\ positions[k] # snapshot[k]
          /\ positions[k] # targetPositions[k]
          /\ Between(snapshot[k], positions[k], targetPositions[k])

====
